---------------------------- MODULE Spec2Model ----------------------------
(***************************************************************************)
(* Calendar Notes: the calendar widget (dateTools, CalendarWidget), the    *)
(* notes store and the save / load coordinator, as one state machine.      *)
(*                                                                         *)
(* A Date object is modelled by its time value: whole hours since the      *)
(* epoch, UTC.  The viewer's timezone is a fixed offset of tz hours, so    *)
(* the local fields of a Date t are the civil fields of t + tz.  A         *)
(* short-key string 'YYYY-MM-DD' is modelled by the triple <<Y, M, D>> of  *)
(* the numbers it spells (M is 1..12).                                     *)
(***************************************************************************)
EXTENDS Integers, Sequences, FiniteSets, TLC

VARIABLES
    tz,             \* viewer's UTC offset in hours (local = UTC + tz)
    now,            \* the wall clock, what `new Date()` returns
    pc,             \* position of the window 'load' handler: "built" | "ready"
    budget,         \* events the run may still take, by kind
    dateToday,      \* CalendarWidget.dateToday
    dateChosen,     \* CalendarWidget.dateChosen
    dateDisplayed,  \* CalendarWidget.dateDisplayed
    starredDates,   \* CalendarWidget.starredDates (membership only)
    onDayClick,     \* CalendarWidget.onDayClick: "null" | "app"
    navigatorText,  \* text of #navigator-text: <<month index, year>>
    cells,          \* the 42 .day elements: classList, textContent, dataset.date
    timers,         \* pending setTimeout callbacks of day clicks
    cbCalls,        \* invocations of the day-selection callback so far
    called,         \* the last of them: <<callback, date, index of the element>>
    timerRuns,      \* setTimeout callbacks run so far
    notes,          \* the notes object: short-key -> text
    textarea,       \* queries.textarea.value
    disabled,       \* queries.textarea.disabled
    dateTag,        \* queries.date.dataset.date
    flashes,        \* colours flashed on the footer by the last handler step
    caught,         \* the error the last step of saveNotes / loadNotes caught
    user,           \* FirestoreWrapper.user: "none" or a uid
    remote,         \* the documents users/{uid}/apps/{app}/documents/notes
    ops,            \* remote operations in flight
    lastSave,       \* the last saveNotes() call: <<its number, what became of its write>>
    signing,        \* signInWithPopup / signOut calls that have not settled
    fnIn,           \* argument of the pure function under check
    fnOut           \* its result

envVars == <<tz, now, pc, budget>>
widgetVars == <<dateToday, dateChosen, dateDisplayed, starredDates, onDayClick,
                navigatorText, cells, timers, cbCalls, called, timerRuns>>
appVars == <<notes, textarea, disabled, dateTag, flashes, caught, user, remote, ops,
             lastSave, signing>>
fnVars == <<fnIn, fnOut>>
vars == <<envVars, widgetVars, appVars, fnVars>>

-----------------------------------------------------------------------------
(* Calendar arithmetic of the Date built-in                                *)

IsLeap(y) == (y % 4 = 0 /\ y % 100 # 0) \/ y % 400 = 0

\* days in month m (0..11) of year y
DaysInMonth(y, m) ==
    IF m = 1 THEN (IF IsLeap(y) THEN 29 ELSE 28)
    ELSE IF m \in {3, 5, 8, 10} THEN 30 ELSE 31

\* Day numbers count days since 1970-01-01; years are counted from 1 March
\* (yy, with mp = 0 for March .. 11 for February) in eras of 400 years.

\* day number of day doy (from 0) of the March-based year yy
DaysFromYearDay(yy, doy) ==
    (yy \div 400) * 146097
    + (yy % 400) * 365 + (yy % 400) \div 4 - (yy % 400) \div 100 + doy - 719468

\* day number of the civil date y-m-d, m in 1..12
DaysFromCivil(y, m, d) ==
    IF m > 2
    THEN DaysFromYearDay(y, (153 * (m - 3) + 2) \div 5 + d - 1)
    ELSE DaysFromYearDay(y - 1, (153 * (m + 9) + 2) \div 5 + d - 1)

\* civil date of day doy of the March-based year yy, in its month mp
CivilFromMonth(yy, doy, mp) ==
    [y |-> IF mp < 10 THEN yy ELSE yy + 1,
     m |-> IF mp < 10 THEN mp + 2 ELSE mp - 10,
     d |-> doy - (153 * mp + 2) \div 5 + 1]

CivilFromYearDay(yy, doy) == CivilFromMonth(yy, doy, (5 * doy + 2) \div 153)

\* ... of day doe of an era, in year yoe of the era
CivilFromYear(era, doe, yoe) ==
    CivilFromYearDay(yoe + era * 400, doe - (365 * yoe + yoe \div 4 - yoe \div 100))

CivilFromEraDay(era, doe) ==
    CivilFromYear(era, doe,
        (doe - doe \div 1460 + doe \div 36524 - doe \div 146096) \div 365)

\* civil date [y, m, d] (m in 0..11, as getMonth) of a day number
CivilFromDays(n) ==
    CivilFromEraDay((n + 719468) \div 146097, (n + 719468) % 146097)

\* months, from July 2023 on, that navigation may reach
NavMonths == 30
FirstMonthOrd == 2023 * 12 + 6

\* The two conversions, tabulated once over the months the model can compute
\* with: the navigable months and sixteen more on either side.
TableFirstMonth == FirstMonthOrd - 16
TableLastMonth == FirstMonthOrd + NavMonths + 16
MonthStartTable ==
    [o \in TableFirstMonth..(TableLastMonth + 1) |->
        DaysFromCivil(o \div 12, (o % 12) + 1, 1)]
CivilTable ==
    [n \in MonthStartTable[TableFirstMonth]..(MonthStartTable[TableLastMonth + 1] - 1) |->
        CivilFromDays(n)]

\* MakeDay of the language: month and day may be out of range and roll over
MakeDay(y, m, d) == MonthStartTable[y * 12 + m] + d - 1

LocalDay(t, z) == (t + z) \div 24
LocalHour(t, z) == (t + z) % 24
Local(t, z) == CivilTable[LocalDay(t, z)]
\* the Date whose local fields are day number n at the local hour of t
AtLocalDay(t, z, n) == n * 24 + LocalHour(t, z) - z

getFullYear(t, z) == Local(t, z).y
getMonth(t, z) == Local(t, z).m
getDate(t, z) == Local(t, z).d
\* 0 = Sunday; 1970-01-01 was a Thursday
getDay(t, z) == (LocalDay(t, z) + 4) % 7

setFullYear(t, z, year) ==
    AtLocalDay(t, z, MakeDay(year, getMonth(t, z), getDate(t, z)))
setMonth(t, z, month) ==
    AtLocalDay(t, z, MakeDay(getFullYear(t, z), month, getDate(t, z)))
\* a setDate that stays within the month: days past either end are clamped
setDateClamped(t, z, day) ==
    AtLocalDay(t, z, MakeDay(getFullYear(t, z), getMonth(t, z),
        IF day < 1 THEN 1
        ELSE IF day > DaysInMonth(getFullYear(t, z), getMonth(t, z))
             THEN DaysInMonth(getFullYear(t, z), getMonth(t, z))
             ELSE day))
setDate(t, z, day) ==
    AtLocalDay(t, z, MakeDay(getFullYear(t, z), getMonth(t, z), day))

\* new Date('YYYY-MM-DD'): a date-only string is midnight UTC of that day
ParseShort(k) == DaysFromCivil(k[1], k[2], k[3]) * 24

\* the instant h hours after midnight UTC of y-m-d
DaysFromCivilAt(y, m, d, h) == DaysFromCivil(y, m, d) * 24 + h

-----------------------------------------------------------------------------
(* Bounds of the model                                                     *)

\* number of consecutive days, from 1 July 2023 on, that the reference dates
\* of the checks of pure functions span
RefRangeDays == 900
\* remote operations in flight at once
MaxOps == 2
\* navigations, day clicks, saves, auth notifications, calls of loadNotes
\* with nobody signed in and advances of the wall clock in one run
MaxEvents == 2

\* what a run may still do: events of each kind, and events in all
FullRun == [nav |-> MaxEvents, click |-> MaxEvents, save |-> MaxEvents,
            auth |-> MaxEvents, load |-> MaxEvents, tick |-> MaxEvents,
            set |-> 0, sign |-> 0, total |-> MaxEvents]
\* a run of the widget in which onDayClick may also be assigned by its host
WidgetRun == [FullRun EXCEPT !.set = MaxEvents]

TZs == {-5, 5}
ClockStep == 20 * 24
\* the widget is built at 2025-01-31 10:00 UTC
StartInstants == {DaysFromCivilAt(2025, 1, 31, 10)}
ClickCells == {1, 20}
\* callbacks a host other than the page's script assigns
HostCallbacks == {"other"}
Deltas == {-13}
Users == {"A"}
Texts == {"", "a"}
\* the remote documents a run may start from, besides none at all
SeedKey == <<2025, 1, 1>>
SeedDoc == SeedKey :> "b"
SeedDocToday == SeedDoc @@ (<<2025, 1, 31>> :> "c")

\* reference dates of the checks of pure functions: early and late in the
\* UTC day, so that the local day is the day before or after in some zone
RefHours == {3, 21}
\* dates given to the functions of dateTools: 2024-12-20 to 2025-01-31, over
\* the end of the year and every day number of a month
ToolRangeDays == 43
ToolInstants ==
    {DaysFromCivilAt(2024, 12, 20, h) + n * 24 : n \in 0..(ToolRangeDays - 1), h \in RefHours}
\* days whose short-keys are compared with each other
KeyRangeDays == 20
KeyInstants ==
    {DaysFromCivilAt(2024, 12, 20, h) + n * 24 : n \in 0..(KeyRangeDays - 1), h \in RefHours}
\* the options given to cloneDate
CloneOpts ==
    {[day |-> 1], [day |-> 0], [day |-> 32], [month |-> 1], [month |-> 12],
     [year |-> 2024], [month |-> 1, day |-> 1], [year |-> 2024, month |-> 1, day |-> 29]}
RefInstants ==
    {DaysFromCivilAt(2023, 7, 1, h) + n * 24 : n \in 0..(RefRangeDays - 1), h \in RefHours}

-----------------------------------------------------------------------------
(* dateTools                                                               *)

Null == "null"

\* cloneDate(date, {day, month, year}); opts is a record of the options given
cloneYear(output, z, opts) ==
    IF "year" \in DOMAIN opts THEN setFullYear(output, z, opts.year) ELSE output
cloneMonth(output, z, opts) ==
    IF "month" \in DOMAIN opts THEN setMonth(output, z, opts.month) ELSE output
cloneDay(output, z, opts) ==
    IF "day" \in DOMAIN opts THEN setDate(output, z, opts.day) ELSE output
cloneDate(date, z, opts) ==
    cloneDay(cloneMonth(cloneYear(date, z, opts), z, opts), z, opts)

GridSize == 42

\* the loop of getDateArray: day runs from start to start + 41
datesFrom(firstDate, z, start) ==
    [i \in 1..GridSize |-> cloneDate(firstDate, z, [day |-> start + i - 1])]

\* a grid whose weeks start on Sunday
datesOfMonthFromSunday(firstDate, z) ==
    datesFrom(firstDate, z, 1 - getDay(firstDate, z))

\* getDateArray from firstDate on
datesOfMonth(firstDate, z) ==
    datesFrom(firstDate, z, 1 - ((getDay(firstDate, z) + 6) % 7))

getDateArray(date, z) == datesOfMonth(cloneDate(date, z, [day |-> 1]), z)

\* a key of the year and month only
ShortOfMonth(l) == <<l.y, l.m + 1, 1>>

\* toLocaleDateString('en-CA'): the local year, month and day
ShortOf(l) == <<l.y, l.m + 1, l.d>>
toShort(date, z) == ShortOf(Local(date, z))

\* the characters 'YYYY-MM-DD' that en-CA spells a short-key with: four
\* digits of the year, two of the month and two of the day
Digit(n) == <<"0", "1", "2", "3", "4", "5", "6", "7", "8", "9">>[n + 1]
ShortString(k) ==
    <<Digit(k[1] \div 1000), Digit((k[1] \div 100) % 10), Digit((k[1] \div 10) % 10),
      Digit(k[1] % 10), "-", Digit(k[2] \div 10), Digit(k[2] % 10), "-",
      Digit(k[3] \div 10), Digit(k[3] % 10)>>

\* an ordinal by the last digit alone
toOrdinalByDigit(date, z) ==
    <<getDate(date, z),
      CASE getDate(date, z) % 10 = 1 -> "st"
        [] getDate(date, z) % 10 = 2 -> "nd"
        [] getDate(date, z) % 10 = 3 -> "rd"
        [] OTHER -> "th">>

\* toOrdinal(date): the day number and the suffix put after it
toOrdinal(date, z) ==
    IF getDate(date, z) > 3 /\ getDate(date, z) < 21
    THEN <<getDate(date, z), "th">>
    ELSE <<getDate(date, z),
           CASE getDate(date, z) % 10 = 1 -> "st"
             [] getDate(date, z) % 10 = 2 -> "nd"
             [] getDate(date, z) % 10 = 3 -> "rd"
             [] OTHER -> "th">>

toMonthIndex(date, z) == getMonth(date, z)
toYear(date, z) == getFullYear(date, z)

SameFields(a, b) == a.y = b.y /\ a.m = b.m /\ a.d = b.d
isSameDate(d1, d2, z) == SameFields(Local(d1, z), Local(d2, z))

\* isToday(date) with `new Date()` returning clock
isToday(date, clock, z) == isSameDate(date, clock, z)

-----------------------------------------------------------------------------
(* CalendarWidget                                                          *)

DayClasses == {"dimmed", "marked", "starred", "today"}

\* a .day element as SHADOW_HTML creates it
BlankCell == [classList |-> {"cell", "day"}, textContent |-> 0, date |-> <<>>]

BlankCells == [i \in 1..GridSize |-> BlankCell]

\* a reset that removes nothing
keepDayClasses(classList) == classList

resetDayClasses(classList) == classList \ DayClasses

shouldStar(date, starred, z) == toShort(date, z) \in starred

\* the class updateDate adds to the element of dateObject, as a set
dayClass(dateObject, date, chosen, starred, clock, z) ==
    IF getMonth(dateObject, z) # getMonth(date, z) THEN {"dimmed"}
    ELSE IF isToday(dateObject, clock, z) THEN {"today"}
    ELSE IF isSameDate(dateObject, chosen, z) THEN {"marked"}
    ELSE IF shouldStar(dateObject, starred, z) THEN {"starred"}
    ELSE {}

\* a turn that toggles the class of the day instead of resetting and adding
updateDayToggling(dayElement, dateObject, date, chosen, starred, clock, z) ==
    [classList |->
        (dayElement.classList \ dayClass(dateObject, date, chosen, starred, clock, z))
            \cup (dayClass(dateObject, date, chosen, starred, clock, z)
                    \ dayElement.classList),
     textContent |-> getDate(dateObject, z),
     date |-> toShort(dateObject, z)]

\* a turn that tags the element with the reference date
updateDayTaggingReference(dayElement, dateObject, date, chosen, starred, clock, z) ==
    [classList |-> resetDayClasses(dayElement.classList)
                    \cup dayClass(dateObject, date, chosen, starred, clock, z),
     textContent |-> getDate(dateObject, z),
     date |-> toShort(date, z)]

\* one turn of the loop of updateDate: the day element after it
updateDay(dayElement, dateObject, date, chosen, starred, clock, z) ==
    [classList |-> resetDayClasses(dayElement.classList)
                    \cup dayClass(dateObject, date, chosen, starred, clock, z),
     textContent |-> getDate(dateObject, z),
     date |-> toShort(dateObject, z)]

updateDays(dateObjects, date, dayElements, chosen, starred, clock, z) ==
    [i \in 1..GridSize |->
        updateDay(dayElements[i], dateObjects[i], date, chosen, starred, clock, z)]

\* updateDate(date): the new navigator text and day elements
updateDate(date, dayElements, chosen, starred, clock, z) ==
    [navigatorText |-> <<toMonthIndex(date, z), toYear(date, z)>>,
     cells |-> updateDays(getDateArray(date, z), date, dayElements, chosen, starred,
                          clock, z)]

\* the state change of this.updateDate(date), with the widget's fields as given
Shown(r) ==
    /\ navigatorText' = r.navigatorText
    /\ cells' = r.cells
Render(date, chosen, starred) ==
    Shown(updateDate(date, cells, chosen, starred, now, tz))

-----------------------------------------------------------------------------
(* The notes store and the remote documents                                *)

Absent == [exists |-> FALSE, data |-> <<>>]
Doc(data) == [exists |-> TRUE, data |-> data]
EmptyStore == <<>>

\* notes[k] || ""
Lookup(store, k) == IF k \in DOMAIN store THEN store[k] ELSE ""
\* delete notes[k]
Delete(store, k) == [j \in DOMAIN store \ {k} |-> store[j]]
\* notes[k] = text
Put(store, k, text) == [j \in DOMAIN store \cup {k} |-> IF j = k THEN text ELSE store[j]]
\* Object.assign(target, source)
ObjectAssign(target, source) ==
    [j \in DOMAIN target \cup DOMAIN source |->
        IF j \in DOMAIN source THEN source[j] ELSE target[j]]

\* what a step of saveNotes / loadNotes caught: nothing, the TypeError of
\* reading 'uid' of null, or the rejection of setDoc / getDoc
NoError == "none"
TypeError == "TypeError"
Rejected == "rejected"
\* the Error authCheck throws
AuthError == "User not authenticated"

RemoveAt(seq, i) == SubSeq(seq, 1, i - 1) \o SubSeq(seq, i + 1, Len(seq))

MonthOrd(t, z) == getFullYear(t, z) * 12 + getMonth(t, z)
InNavRange(t, z) ==
    /\ MonthOrd(t, z) >= FirstMonthOrd
    /\ MonthOrd(t, z) < FirstMonthOrd + NavMonths

\* what has become of the last saveNotes() call: nothing was saved yet, its
\* write is in flight, or saveNotes has flashed green or red for it
NoSave == <<0, "none">>
SaveIssued(id) == <<id, "sent">>
SaveSettled(id, ok) == <<id, IF ok THEN "ok" ELSE "failed">>

\* one event of the given kind is taken from the run's budget
Spend(kind) ==
    /\ budget[kind] > 0
    /\ budget.total > 0
    /\ budget' = [budget EXCEPT ![kind] = @ - 1, !.total = @ - 1]

-----------------------------------------------------------------------------
(* Initial state: the 'load' handler has built the widget, rendered it and *)
(* tagged the footer with today's short-key; everything else is as         *)
(* declared.                                                               *)

InitApp(run) ==
    /\ tz \in TZs
    /\ now \in StartInstants
    /\ pc = "built"
    /\ budget = run
    /\ dateToday = now
    /\ dateChosen = now
    /\ dateDisplayed = now
    /\ starredDates = {}
    /\ onDayClick = Null
    /\ navigatorText = updateDate(now, BlankCells, now, {}, now, tz).navigatorText
    /\ cells = updateDate(now, BlankCells, now, {}, now, tz).cells
    /\ timers = 0
    /\ cbCalls = 0
    /\ called = <<>>
    /\ timerRuns = 0
    /\ notes = EmptyStore
    /\ textarea = ""
    /\ disabled = FALSE
    /\ dateTag = toShort(now, tz)
    /\ flashes = <<>>
    /\ caught = NoError
    /\ user = "none"
    /\ remote \in [Users -> {Absent, Doc(SeedDoc), Doc(SeedDocToday)}]
    /\ ops = <<>>
    /\ lastSave = NoSave
    /\ signing = <<>>

-----------------------------------------------------------------------------
(* The wall clock                                                          *)

Tick ==
    /\ Spend("tick")
    /\ now' = now + ClockStep
    /\ UNCHANGED <<tz, pc, widgetVars, appVars, fnVars>>

-----------------------------------------------------------------------------
(* CalendarWidget: navigation and clicks                                   *)

\* the value navigateMonth(change) leaves in this.dateDisplayed
MovedMonth(displayed, change, z) ==
    setMonth(displayed, z, getMonth(displayed, z) + change)

\* navigateMonth(change)
navigateMonth(change) ==
    /\ Spend("nav")
    /\ dateDisplayed' = MovedMonth(dateDisplayed, change, tz)
    /\ InNavRange(dateDisplayed', tz)
    /\ Render(dateDisplayed', dateChosen, starredDates)
    /\ UNCHANGED <<tz, now, pc, dateToday, dateChosen, starredDates, onDayClick,
                   timers, cbCalls, called, timerRuns, appVars, fnVars>>

\* a call of the public method with a larger step
CallNavigateMonth == \E change \in Deltas : navigateMonth(change)

\* click on #navigator-left
ClickNavigatorLeft == navigateMonth(-1)

\* click on #navigator-right
ClickNavigatorRight == navigateMonth(1)

\* click on #navigator-text
ClickNavigatorText ==
    /\ Spend("nav")
    /\ UNCHANGED <<tz, now, pc, dateToday, dateChosen, dateDisplayed, starredDates,
                   onDayClick, timers, cbCalls, called, timerRuns, appVars, fnVars>>
    /\ Render(dateToday, dateChosen, starredDates)

\* a callback that shows the text of the date that was open before
AppOnDayClickStale(date) ==
    /\ dateTag' = toShort(date, tz)
    /\ textarea' = Lookup(notes, dateTag)

\* calendar.onDayClick = async (date) => {...} of the application
AppOnDayClick(date) ==
    /\ dateTag' = toShort(date, tz)
    /\ textarea' = Lookup(notes, dateTag')

\* this.onDayClick(date, element), with element the i-th .day element; a
\* callback other than the application's touches nothing of the page
Invoke(callback, date, i) ==
    /\ called' = <<callback, date, i>>
    /\ cbCalls' = cbCalls + 1
    /\ IF callback = "app"
       THEN AppOnDayClick(date)
       ELSE UNCHANGED <<dateTag, textarea>>

\* a click that first stores the textarea's value under the open date
ClickDayStoring(i) ==
    /\ Spend("click")
    /\ IF onDayClick # Null
       THEN /\ dateChosen' = ParseShort(cells[i].date)
            /\ Invoke(onDayClick, dateChosen', i)
            /\ timers' = timers + 1
            /\ notes' = Put(notes, dateTag, textarea)
       ELSE UNCHANGED <<dateChosen, dateTag, textarea, cbCalls, called, timers, notes>>
    /\ UNCHANGED <<tz, now, pc, dateToday, dateDisplayed, starredDates, onDayClick,
                   navigatorText, cells, timerRuns, disabled, flashes, caught,
                   user, remote, ops, lastSave, signing, fnVars>>

\* a click that invokes the page's callback whatever onDayClick holds
ClickDayFirstAssigned(i) ==
    /\ Spend("click")
    /\ IF onDayClick # Null
       THEN /\ dateChosen' = ParseShort(cells[i].date)
            /\ Invoke("app", dateChosen', i)
            /\ timers' = timers + 1
       ELSE UNCHANGED <<dateChosen, dateTag, textarea, cbCalls, called, timers>>
    /\ UNCHANGED <<tz, now, pc, dateToday, dateDisplayed, starredDates, onDayClick,
                   navigatorText, cells, timerRuns, notes, disabled, flashes, caught,
                   user, remote, ops, lastSave, signing, fnVars>>

\* click on the i-th .day element
ClickDay(i) ==
    /\ Spend("click")
    /\ IF onDayClick # Null
       THEN /\ dateChosen' = ParseShort(cells[i].date)
            /\ Invoke(onDayClick, dateChosen', i)
            /\ timers' = timers + 1
       ELSE UNCHANGED <<dateChosen, dateTag, textarea, cbCalls, called, timers>>
    /\ UNCHANGED <<tz, now, pc, dateToday, dateDisplayed, starredDates, onDayClick,
                   navigatorText, cells, timerRuns, notes, disabled, flashes, caught,
                   user, remote, ops, lastSave, signing, fnVars>>

ClickSomeDay == \E i \in ClickCells : ClickDay(i)

\* the host of the widget assigns its onDayClick field
SetOnDayClick(callback) ==
    /\ Spend("set")
    /\ onDayClick' = callback
    /\ UNCHANGED <<tz, now, pc, dateToday, dateChosen, dateDisplayed, starredDates,
                   navigatorText, cells, timers, cbCalls, called, timerRuns, appVars,
                   fnVars>>

HostSetsOnDayClick == \E callback \in HostCallbacks : SetOnDayClick(callback)

\* the event loop takes a due setTimeout callback off its queue
TimerDue ==
    /\ timers > 0
    /\ timers' = timers - 1
    /\ timerRuns' = timerRuns + 1

\* a callback that re-renders the displayed month instead of the chosen date
TimerFireDisplayed ==
    /\ TimerDue
    /\ Render(dateDisplayed, dateChosen, starredDates)
    /\ UNCHANGED <<envVars, dateToday, dateChosen, dateDisplayed, starredDates,
                   onDayClick, cbCalls, called, appVars, fnVars>>

\* the setTimeout callback of a day click
TimerFire ==
    /\ TimerDue
    /\ Render(dateChosen, dateChosen, starredDates)
    /\ UNCHANGED <<envVars, dateToday, dateChosen, dateDisplayed, starredDates,
                   onDayClick, cbCalls, called, appVars, fnVars>>

-----------------------------------------------------------------------------
(* The application: setup, editing, saveNotes and loadNotes                *)

\* the rest of the 'load' handler: firestore.init(), the listeners, the callback
AppSetup ==
    /\ pc = "built"
    /\ pc' = "ready"
    /\ onDayClick' = "app"
    /\ UNCHANGED <<tz, now, budget, dateToday, dateChosen, dateDisplayed, starredDates,
                   navigatorText, cells, timers, cbCalls, called, timerRuns, appVars, fnVars>>

\* the user edits the textarea
Type ==
    /\ pc = "ready"
    /\ ~disabled
    /\ \E text \in Texts : text # textarea /\ textarea' = text
    /\ UNCHANGED <<envVars, widgetVars, notes, disabled, dateTag, flashes, caught,
                   user, remote, ops, lastSave, signing, fnVars>>

\* authCheck(): an async method, so the Error it throws for a null user is
\* the rejection of the promise it returns
authCheck(u) == IF u = "none" THEN AuthError ELSE NoError

\* reference(key): what it throws.  The promise of authCheck() is dropped; the
\* path is then built from this.user.uid
reference(u) == IF u = "none" THEN TypeError ELSE NoError

ReadOp(uid) == [kind |-> "read", uid |-> uid, stage |-> "sent", ok |-> TRUE, doc |-> Absent]
WriteOp(uid, data) ==
    [kind |-> "write", uid |-> uid, stage |-> "sent", ok |-> TRUE, doc |-> Doc(data)]

\* An operation as it is issued, with what the properties need to know of it:
\* id numbers it, edit is the date and text of its saveNotes, after holds the
\* ids of the loads whose read was already taken when it was issued, and
\* overtaken collects the dates of the saves that were issued after the read
\* of this load was taken and have succeeded since.
Issued(op, id, edit, after) ==
    op @@ [id |-> id, edit |-> edit, after |-> after, overtaken |-> {}]

ReadsTaken(queue) ==
    {queue[j].id : j \in {k \in 1..Len(queue) :
        queue[k].kind = "read" /\ queue[k].stage = "served" /\ queue[k].ok}}

Overtake(queue, write) ==
    [j \in 1..Len(queue) |->
        IF queue[j].kind = "read" /\ queue[j].id \in write.after
        THEN [queue[j] EXCEPT !.overtaken = @ \cup {write.edit[1]}]
        ELSE queue[j]]

\* an edit that stores the text whatever it is
StoredText(store, date, text) == Put(store, date, text)

\* the edit saveNotes makes to the notes object
SavedStore(store, date, text) ==
    IF text = "" THEN Delete(store, date) ELSE Put(store, date, text)

\* a save that flashes green whatever becomes of the write
saveFlashesGreen(ok) == <<"green">>

\* the flash of saveNotes after its await
saveFlashes(ok) == IF ok THEN <<"green">> ELSE <<"red">>

\* saveNotes(), up to the await of firestore.write
saveNotes ==
    /\ pc = "ready"
    /\ Len(ops) < MaxOps
    /\ Spend("save")
    /\ notes' = SavedStore(notes, dateTag, textarea)
    /\ starredDates' = starredDates \cup {dateTag}
    /\ IF reference(user) # NoError
       THEN /\ flashes' = saveFlashes(FALSE)
            /\ caught' = reference(user)
            /\ ops' = ops
            /\ lastSave' = SaveSettled(budget.total, FALSE)
       ELSE /\ flashes' = flashes
            /\ caught' = caught
            /\ ops' = Append(ops, Issued(WriteOp(user, notes'), budget.total,
                                         <<dateTag, textarea>>, ReadsTaken(ops)))
            /\ lastSave' = SaveIssued(budget.total)
    /\ UNCHANGED <<tz, now, pc, dateToday, dateChosen, dateDisplayed, onDayClick,
                   navigatorText, cells, timers, cbCalls, called, timerRuns,
                   textarea, disabled, dateTag, user, remote, signing, fnVars>>

\* a setDoc with { merge: true }
setDocMerged(old, new) ==
    IF old.exists THEN Doc(ObjectAssign(old.data, new.data)) ELSE new

\* setDoc(reference, data, { merge: false }): the document after it
setDoc(old, new) == new

\* a saveNotes that sends a rejected write once more
WriteDoneRetrying(i, ok) ==
    /\ ops[i].kind = "write"
    /\ flashes' = saveFlashes(ok)
    /\ lastSave' = IF ops[i].id = lastSave[1] THEN SaveSettled(ops[i].id, ok) ELSE lastSave
    /\ IF ok
       THEN /\ remote' = [remote EXCEPT ![ops[i].uid] = setDoc(remote[ops[i].uid], ops[i].doc)]
            /\ caught' = NoError
            /\ ops' = RemoveAt(Overtake(ops, ops[i]), i)
       ELSE /\ remote' = remote
            /\ caught' = Rejected
            /\ ops' = Append(RemoveAt(ops, i), ops[i])
    /\ UNCHANGED <<envVars, widgetVars, notes, textarea, disabled, dateTag, user,
                   signing, fnVars>>

\* setDoc settles and saveNotes resumes after its await
WriteDone(i, ok) ==
    /\ ops[i].kind = "write"
    /\ flashes' = saveFlashes(ok)
    /\ lastSave' = IF ops[i].id = lastSave[1] THEN SaveSettled(ops[i].id, ok) ELSE lastSave
    /\ IF ok
       THEN /\ remote' = [remote EXCEPT ![ops[i].uid] = setDoc(remote[ops[i].uid], ops[i].doc)]
            /\ caught' = NoError
            /\ ops' = RemoveAt(Overtake(ops, ops[i]), i)
       ELSE /\ remote' = remote
            /\ caught' = Rejected
            /\ ops' = RemoveAt(ops, i)
    /\ UNCHANGED <<envVars, widgetVars, notes, textarea, disabled, dateTag, user,
                   signing, fnVars>>

WriteSettles == \E i \in 1..Len(ops), ok \in BOOLEAN : WriteDone(i, ok)

\* a handler that flips the flag
textareaFlipped(u, was) == ~was

\* a handler that only ever enables
textareaEnabled(u, was) == IF u # "none" THEN FALSE ELSE was

\* queries.textarea.disabled as the auth handler sets it, whatever it was
textareaDisabled(u, was) == u = "none"

\* a notification that reaches the application's listener before the
\* wrapper's: loadNotes() runs with the user recorded before
AuthNotifyAppFirst(u) ==
    /\ pc = "ready"
    /\ Spend("auth")
    /\ user' = u
    /\ disabled' = textareaDisabled(u, disabled)
    /\ IF u # "none" /\ reference(user) # NoError
       THEN /\ ops' = ops
            /\ flashes' = <<"red">>
            /\ caught' = reference(user)
       ELSE /\ u # "none" => Len(ops) < MaxOps
            /\ ops' = IF u # "none"
                      THEN Append(ops, Issued(ReadOp(user), budget.total, <<>>, {}))
                      ELSE ops
            /\ UNCHANGED <<flashes, caught>>
    /\ UNCHANGED <<tz, now, pc, widgetVars, notes, textarea, dateTag, remote,
                   lastSave, fnVars>>

\* an auth-state notification: the wrapper's listener, then the application's,
\* which enables the textarea and calls loadNotes() up to its await
AuthNotify(u) ==
    /\ pc = "ready"
    /\ Spend("auth")
    /\ user' = u
    /\ disabled' = textareaDisabled(u, disabled)
    /\ IF u # "none"
       THEN /\ Len(ops) < MaxOps
            /\ ops' = Append(ops, Issued(ReadOp(u), budget.total, <<>>, {}))
       ELSE /\ ops' = ops
    /\ UNCHANGED <<tz, now, pc, widgetVars, notes, textarea, dateTag, flashes, caught,
                   remote, lastSave, fnVars>>

\* a notification no call of this page has asked for: the session the browser
\* has kept, or a sign-in or sign-out in another tab
AuthChange == \E u \in Users \cup {"none"} : AuthNotify(u) /\ signing' = signing

\* getDoc is answered: the snapshot is taken, or the read is rejected
ReadServe(i, ok) ==
    /\ ops[i].kind = "read"
    /\ ops[i].stage = "sent"
    /\ ops' = [ops EXCEPT ![i] = [@ EXCEPT !.stage = "served", !.ok = ok,
                                            !.doc = IF ok THEN remote[ops[i].uid] ELSE Absent]]
    /\ UNCHANGED <<envVars, widgetVars, notes, textarea, disabled, dateTag, flashes,
                   caught, user, remote, lastSave, signing, fnVars>>

ReadServed == \E i \in 1..Len(ops), ok \in BOOLEAN : ReadServe(i, ok)

\* a load that replaces the store by the document read
ReplacedStore(store, storedNotes) ==
    IF storedNotes.exists THEN storedNotes.data ELSE store

\* a load that is interrupted after the first key of the document
PartlyLoadedStore(store, storedNotes) ==
    IF storedNotes.exists /\ storedNotes.data # <<>>
    THEN Put(store, SeedKey, storedNotes.data[SeedKey])
    ELSE store

\* the store loadNotes leaves when the read gave storedNotes
LoadedStore(store, storedNotes) ==
    IF storedNotes.exists THEN ObjectAssign(store, storedNotes.data) ELSE store

\* a load that leaves the textarea's value alone
LoadedTextKept(store, text, storedNotes, tag) == text

\* the textarea's value after it, store being the store it has left
LoadedText(store, text, storedNotes, tag) ==
    IF storedNotes.exists THEN Lookup(store, tag) ELSE text

\* a load that has no flash of its own for a missing document
loadFlashesFound(ok, exists) == IF ok THEN <<"green">> ELSE <<"red">>

\* a load that flashes green after its try / catch
loadFlashesFinally(ok, exists) ==
    IF ~ok THEN <<"red", "green">>
    ELSE IF exists THEN <<"green">> ELSE <<"orange", "green">>

\* the flashes of loadNotes after its await
loadFlashes(ok, exists) ==
    IF ~ok THEN <<"red">>
    ELSE IF exists THEN <<"green">> ELSE <<"orange", "green">>

\* loadNotes() called while nobody is signed in, which no handler of the page
\* does: firestore.read throws in reference(), before getDoc
loadNotesSignedOut ==
    /\ pc = "ready"
    /\ user = "none"
    /\ Spend("load")
    /\ caught' = reference(user)
    /\ flashes' = loadFlashes(FALSE, FALSE)
    /\ UNCHANGED <<tz, now, pc, widgetVars, notes, textarea, disabled, dateTag, user,
                   remote, ops, lastSave, signing, fnVars>>

\* loadNotes() resumes after its await
ReadDone(i) ==
    /\ ops[i].kind = "read"
    /\ ops[i].stage = "served"
    /\ ops' = RemoveAt(ops, i)
    /\ flashes' = loadFlashes(ops[i].ok, ops[i].doc.exists)
    /\ IF ops[i].ok
       THEN /\ caught' = NoError
            /\ notes' = LoadedStore(notes, ops[i].doc)
            /\ textarea' = LoadedText(notes', textarea, ops[i].doc, dateTag)
            /\ starredDates' = starredDates \cup DOMAIN notes'
            /\ Render(now, dateChosen, starredDates')
       ELSE /\ caught' = Rejected
            /\ UNCHANGED <<notes, textarea, starredDates, navigatorText, cells>>
    /\ UNCHANGED <<envVars, dateToday, dateChosen, dateDisplayed, onDayClick,
                   timers, cbCalls, called, timerRuns, disabled, dateTag, user, remote,
                   lastSave, signing, fnVars>>

LoadResumes == \E i \in 1..Len(ops) : ReadDone(i)

-----------------------------------------------------------------------------

Next ==
    \/ Tick
    \/ CallNavigateMonth
    \/ ClickNavigatorLeft
    \/ ClickNavigatorRight
    \/ ClickNavigatorText
    \/ ClickSomeDay
    \/ TimerFire
    \/ AppSetup
    \/ Type
    \/ saveNotes
    \/ WriteSettles
    \/ AuthChange
    \/ loadNotesSignedOut
    \/ ReadServed
    \/ LoadResumes

Init ==
    /\ InitApp(FullRun)
    /\ fnIn = <<>>
    /\ fnOut = <<>>

Spec == Init /\ [][Next]_vars

\* The event loop eventually runs a callback that is due.  TimerDue is all of
\* TimerFire that can be disabled, and only TimerFire changes timerRuns, so
\* this is weak fairness of TimerFire.
SpecFair == Spec /\ WF_timers(TimerDue)

-----------------------------------------------------------------------------
(* The widget with a host that assigns onDayClick before or after the      *)
(* page's script does                                                      *)

InitWidget ==
    /\ InitApp(WidgetRun)
    /\ fnIn = <<>>
    /\ fnOut = <<>>

NextWidget ==
    \/ Tick
    \/ CallNavigateMonth
    \/ ClickNavigatorLeft
    \/ ClickNavigatorRight
    \/ ClickNavigatorText
    \/ ClickSomeDay
    \/ TimerFire
    \/ AppSetup
    \/ HostSetsOnDayClick

SpecWidget == InitWidget /\ [][NextWidget]_vars

-----------------------------------------------------------------------------
(* Typing and saving once a user is signed in and the load of the sign-in  *)
(* has completed: the run starts where the window 'load' handler, one auth *)
(* notification and its loadNotes() have left the page                     *)

InitSignedIn ==
    /\ tz \in TZs
    /\ now \in StartInstants
    /\ pc = "ready"
    /\ budget = FullRun
    /\ dateToday = now
    /\ dateChosen = now
    /\ dateDisplayed = now
    /\ onDayClick = "app"
    /\ timers = 0
    /\ cbCalls = 0
    /\ called = <<>>
    /\ timerRuns = 0
    /\ user \in Users
    /\ remote \in [Users -> {Absent, Doc(SeedDoc), Doc(SeedDocToday)}]
    /\ disabled = textareaDisabled(user, FALSE)
    /\ dateTag = toShort(now, tz)
    /\ notes = LoadedStore(EmptyStore, remote[user])
    /\ textarea = LoadedText(notes, "", remote[user], dateTag)
    /\ starredDates = DOMAIN notes
    /\ navigatorText = updateDate(now, BlankCells, now, starredDates, now, tz).navigatorText
    /\ cells = updateDate(now, BlankCells, now, starredDates, now, tz).cells
    /\ flashes = loadFlashes(TRUE, remote[user].exists)
    /\ caught = NoError
    /\ ops = <<>>
    /\ lastSave = NoSave
    /\ signing = <<>>
    /\ fnIn = <<>>
    /\ fnOut = <<>>

NextSaves ==
    \/ Type
    \/ saveNotes
    \/ WriteSettles

SpecSaves == InitSignedIn /\ [][NextSaves]_vars

\* The widget in use once the notes are loaded and their dates starred
NextShow ==
    \/ Tick
    \/ CallNavigateMonth
    \/ ClickNavigatorLeft
    \/ ClickNavigatorRight
    \/ ClickNavigatorText
    \/ ClickSomeDay
    \/ TimerFire

SpecShow == InitSignedIn /\ [][NextShow]_vars

-----------------------------------------------------------------------------
(* Two accounts on one page: the run starts with A signed in and A's notes *)
(* loaded, B has no document yet, and the open date stays today's          *)

Identities == {"A", "B"}

\* the events of a run: one log-out, one login and one save
IdentityEvents == 3
IdentityRun == [FullRun EXCEPT !.auth = IdentityEvents - 1, !.save = 1,
                               !.total = IdentityEvents]

InitIdentities ==
    /\ tz \in TZs
    /\ now \in StartInstants
    /\ pc = "ready"
    /\ budget = IdentityRun
    /\ dateToday = now
    /\ dateChosen = now
    /\ dateDisplayed = now
    /\ onDayClick = "app"
    /\ timers = 0
    /\ cbCalls = 0
    /\ called = <<>>
    /\ timerRuns = 0
    /\ user = "A"
    /\ remote \in {[u \in Identities |-> IF u = "A" THEN Doc(data) ELSE Absent] :
                     data \in {SeedDoc, SeedDocToday}}
    /\ disabled = textareaDisabled(user, FALSE)
    /\ dateTag = toShort(now, tz)
    /\ notes = LoadedStore(EmptyStore, remote[user])
    /\ textarea = LoadedText(notes, "", remote[user], dateTag)
    /\ starredDates = DOMAIN notes
    /\ navigatorText = updateDate(now, BlankCells, now, starredDates, now, tz).navigatorText
    /\ cells = updateDate(now, BlankCells, now, starredDates, now, tz).cells
    /\ flashes = loadFlashes(TRUE, remote[user].exists)
    /\ caught = NoError
    /\ ops = <<>>
    /\ lastSave = NoSave
    /\ signing = <<>>
    /\ fnIn = <<>>
    /\ fnOut = <<>>

\* the notification of a log-out, or of a login with either account
IdentityChange == \E u \in Identities \cup {"none"} : AuthNotify(u) /\ signing' = signing

NextIdentities ==
    \/ Type
    \/ saveNotes
    \/ WriteSettles
    \/ IdentityChange
    \/ ReadServed
    \/ LoadResumes

SpecIdentities == InitIdentities /\ [][NextIdentities]_vars

-----------------------------------------------------------------------------
(* Signing in and out through the wrapper: the click on the profile image  *)
(* calls login(), logout() is there for any caller; fnOut records what the *)
(* call has returned, "pending" while its promise is not settled           *)

\* a sign-in and a sign-out, each followed by its notification, fit in one run
LoginRun == [FullRun EXCEPT !.sign = MaxEvents, !.total = 2 * MaxEvents]

\* a login() that opens the popup whoever is recorded
loginAlways ==
    /\ pc = "ready"
    /\ Spend("sign")
    /\ fnOut' = <<"login", "pending">>
    /\ signing' = Append(signing, "signInWithPopup")
    /\ UNCHANGED <<tz, now, pc, widgetVars, notes, textarea, disabled, dateTag, flashes,
                   caught, user, remote, ops, lastSave, fnIn>>

\* login(): the recorded user is returned, or signInWithPopup is called
login ==
    /\ pc = "ready"
    /\ Spend("sign")
    /\ IF user # "none"
       THEN /\ fnOut' = <<"login", user>>
            /\ signing' = signing
       ELSE /\ fnOut' = <<"login", "pending">>
            /\ signing' = Append(signing, "signInWithPopup")
    /\ UNCHANGED <<tz, now, pc, widgetVars, notes, textarea, disabled, dateTag, flashes,
                   caught, user, remote, ops, lastSave, fnIn>>

\* logout(): nothing when no user is recorded, or signOut is called
logout ==
    /\ pc = "ready"
    /\ Spend("sign")
    /\ IF user = "none"
       THEN /\ fnOut' = <<"logout", "undefined">>
            /\ signing' = signing
       ELSE /\ fnOut' = <<"logout", "pending">>
            /\ signing' = Append(signing, "signOut")
    /\ UNCHANGED <<tz, now, pc, widgetVars, notes, textarea, disabled, dateTag, flashes,
                   caught, user, remote, ops, lastSave, fnIn>>

\* signInWithPopup settles: an account was picked and the listeners are
\* notified, or the popup was closed and the promise is rejected
SignInSettles ==
    \E i \in 1..Len(signing) :
        /\ signing[i] = "signInWithPopup"
        /\ signing' = RemoveAt(signing, i)
        /\ \/ \E u \in Users : AuthNotify(u)
           \/ UNCHANGED <<envVars, widgetVars, notes, textarea, disabled, dateTag, flashes,
                          caught, user, remote, ops, lastSave, fnVars>>

\* signOut settles and the listeners are notified with null
SignOutSettles ==
    \E i \in 1..Len(signing) :
        /\ signing[i] = "signOut"
        /\ signing' = RemoveAt(signing, i)
        /\ AuthNotify("none")

NextLogin ==
    \/ AppSetup
    \/ login
    \/ logout
    \/ SignInSettles
    \/ SignOutSettles
    \/ ReadServed
    \/ LoadResumes

InitLogin ==
    /\ InitApp(LoginRun)
    /\ fnIn = <<>>
    /\ fnOut = <<>>

SpecLogin == InitLogin /\ [][NextLogin]_vars

-----------------------------------------------------------------------------
(* getDateArray on its own: a reference date and a zone are drawn, and the *)
(* function is applied to them                                             *)

InitGrid ==
    /\ InitApp(FullRun)
    /\ fnIn \in [date : RefInstants, z : {tz}]
    /\ fnOut = <<>>

ApplyGetDateArray ==
    /\ fnOut = <<>>
    /\ fnOut' = getDateArray(fnIn.date, fnIn.z)
    /\ UNCHANGED <<envVars, widgetVars, appVars, fnIn>>

NextGrid == ApplyGetDateArray

SpecGrid == InitGrid /\ [][NextGrid]_vars

-----------------------------------------------------------------------------
(* toShort with isSameDate, cloneDate and toOrdinal on their own: the      *)
(* function and its arguments are drawn, and the function is applied       *)

ToolInputs ==
    [fn : {"toShort"}, d1 : KeyInstants, d2 : KeyInstants]
        \cup [fn : {"cloneDate"}, date : ToolInstants, opts : CloneOpts]
        \cup [fn : {"toOrdinal"}, date : ToolInstants]

InitTools ==
    /\ InitApp(FullRun)
    /\ remote = [u \in Users |-> Absent]
    /\ fnIn \in ToolInputs
    /\ fnOut = <<>>

\* the key of each of two dates as en-CA spells it, and isSameDate of them
ApplyToShort ==
    /\ fnOut = <<>>
    /\ fnIn.fn = "toShort"
    /\ fnOut' = <<ShortString(toShort(fnIn.d1, tz)), ShortString(toShort(fnIn.d2, tz)),
                  isSameDate(fnIn.d1, fnIn.d2, tz)>>
    /\ UNCHANGED <<envVars, widgetVars, appVars, fnIn>>

ApplyCloneDate ==
    /\ fnOut = <<>>
    /\ fnIn.fn = "cloneDate"
    /\ fnOut' = <<cloneDate(fnIn.date, tz, fnIn.opts)>>
    /\ UNCHANGED <<envVars, widgetVars, appVars, fnIn>>

ApplyToOrdinal ==
    /\ fnOut = <<>>
    /\ fnIn.fn = "toOrdinal"
    /\ fnOut' = toOrdinal(fnIn.date, tz)
    /\ UNCHANGED <<envVars, widgetVars, appVars, fnIn>>

NextTools ==
    \/ ApplyToShort
    \/ ApplyCloneDate
    \/ ApplyToOrdinal

SpecTools == InitTools /\ [][NextTools]_vars

-----------------------------------------------------------------------------
(* Properties of getDateArray                                              *)

\* the short-key of the calendar day after the one of short-key k
NextDay(k) ==
    IF k[3] < DaysInMonth(k[1], k[2] - 1) THEN <<k[1], k[2], k[3] + 1>>
    ELSE IF k[2] < 12 THEN <<k[1], k[2] + 1, 1>>
    ELSE <<k[1] + 1, 1, 1>>

\* C1: for every reference date, getDateArray returns exactly 42 dates and
\* each of them is the calendar day right after the previous one, at the same
\* time of day.
C1_GridIsConsecutiveDays ==
    fnOut # <<>> =>
        /\ DOMAIN fnOut = 1..42
        /\ \A i \in 1..41 :
            /\ toShort(fnOut[i + 1], fnIn.z) = NextDay(toShort(fnOut[i], fnIn.z))
            /\ fnOut[i + 1] = fnOut[i] + 24

\* a grid that runs over the leap day of 2024 into March
C1_Witness ==
    /\ fnOut # <<>>
    /\ \E i \in 1..41 :
        /\ toShort(fnOut[i], fnIn.z) = <<2024, 2, 29>>
        /\ toShort(fnOut[i + 1], fnIn.z) = <<2024, 3, 1>>

\* C2: the first cell of the grid is the Monday on or before the 1st of the
\* reference date's month, (weekday of the 1st + 6) mod 7 cells before it, the
\* grid holds every day of that month, and the grid of 2025-07-15 runs from
\* 2025-06-30 to 2025-08-10.
C2_GridStartsOnMondayAndCoversMonth ==
    fnOut # <<>> =>
        /\ getDay(fnOut[1], fnIn.z) = 1
        /\ \E j \in 1..7 :
            /\ toShort(fnOut[j], fnIn.z) =
                    <<getFullYear(fnIn.date, fnIn.z), getMonth(fnIn.date, fnIn.z) + 1, 1>>
            /\ j - 1 = (getDay(fnOut[j], fnIn.z) + 6) % 7
        /\ \A d \in 1..DaysInMonth(getFullYear(fnIn.date, fnIn.z), getMonth(fnIn.date, fnIn.z)) :
            \E i \in 1..42 :
                toShort(fnOut[i], fnIn.z) =
                    <<getFullYear(fnIn.date, fnIn.z), getMonth(fnIn.date, fnIn.z) + 1, d>>
        /\ toShort(fnIn.date, fnIn.z) = <<2025, 7, 15>> =>
            /\ toShort(fnOut[1], fnIn.z) = <<2025, 6, 30>>
            /\ toShort(fnOut[42], fnIn.z) = <<2025, 8, 10>>

\* the grid of a month whose 1st is a Sunday: six days of lead-in
C2_Witness ==
    /\ fnOut # <<>>
    /\ toShort(fnIn.date, fnIn.z) = <<2025, 6, 15>>
    /\ toShort(fnOut[1], fnIn.z) = <<2025, 5, 26>>
    /\ toShort(fnOut[7], fnIn.z) = <<2025, 6, 1>>

-----------------------------------------------------------------------------
(* Properties of the widget                                                *)

NavigatorTextOf(date) == <<getMonth(date, tz), getFullYear(date, tz)>>

\* the classification that the precedence assigns, as the set of its classes
PrecedenceClass(outOfMonth, today, chosen, star) ==
    IF outOfMonth THEN {"dimmed"}
    ELSE IF today THEN {"today"}
    ELSE IF chosen THEN {"marked"}
    ELSE IF star THEN {"starred"}
    ELSE {}

\* the step is a render: a click in the navigator (a navigation or a click
\* on the label), the callback of a timer or the resumption of a load whose
\* read succeeded
RenderStep ==
    \/ budget'.nav # budget.nav
    \/ timerRuns' # timerRuns
    \/ \E i \in 1..Len(ops) :
        ops[i].kind = "read" /\ ops[i].ok /\ ops' = RemoveAt(ops, i)

\* after the step, every day element carries exactly the classification of
\* the day it is tagged with, in the month the step has put on show
ClassifiedAsShown ==
    \A i \in 1..GridSize :
        cells'[i].classList \cap DayClasses =
            PrecedenceClass(cells'[i].date[2] # navigatorText'[1] + 1,
                            cells'[i].date = toShort(now, tz),
                            cells'[i].date = toShort(dateChosen, tz),
                            cells'[i].date \in starredDates')

\* C3: every day element carries at most one of dimmed, today, marked and
\* starred, and after every render it carries the one the precedence
\* out-of-month > today > chosen > starred gives the day it shows, whatever it
\* carried before.
C3_RenderClassifiesByPrecedence ==
    /\ [](\A i \in 1..GridSize : Cardinality(cells[i].classList \cap DayClasses) <= 1)
    /\ [][RenderStep => ClassifiedAsShown]_vars

\* the day that is today and the chosen date, shown in the lead-in of the
\* next month: it was rendered as today before and is now dimmed only
C3_Witness ==
    \E i \in 1..GridSize :
        /\ cells[i].date = toShort(now, tz)
        /\ cells[i].date = toShort(dateChosen, tz)
        /\ cells[i].date[2] # navigatorText[1] + 1
        /\ cells[i].classList \cap DayClasses = {"dimmed"}

\* C4: navigateMonth(change) moves the displayed month by exactly change
\* months, whatever the day of the month of the displayed date, and shows it.
C4_NavigateMovesByDelta ==
    [][\A change \in {-1, 1} \cup Deltas :
        navigateMonth(change) =>
            /\ MonthOrd(dateDisplayed', tz) = MonthOrd(dateDisplayed, tz) + change
            /\ navigatorText' = <<(MonthOrd(dateDisplayed, tz) + change) % 12,
                                  (MonthOrd(dateDisplayed, tz) + change) \div 12>>]_vars

\* C5: a click on a day element, in any zone, sets dateChosen to the day the
\* element is tagged with: the short-key of dateChosen, and of the date the
\* callback receives, is the element's tag.
C5_ChosenDateIsClickedDay ==
    [][\A i \in ClickCells :
        (ClickDay(i) /\ onDayClick # Null) =>
            /\ toShort(dateChosen', tz) = cells[i].date
            /\ dateTag' = cells[i].date]_vars

\* C6: a click on a day element with a callback registered calls the
\* callback once, within the click and before any re-render the click causes;
\* every re-render of a click has the date chosen last as its reference; and
\* once clicks are pending, their re-renders eventually all happen and leave
\* the month of the date chosen last on show.
C6_CallbackThenRerender ==
    /\ [][\A i \in ClickCells :
            (ClickDay(i) /\ onDayClick # Null) =>
                /\ cbCalls' = cbCalls + 1
                /\ timers' = timers + 1
                /\ UNCHANGED <<navigatorText, cells, timerRuns>>]_vars
    /\ [](timerRuns + timers = cbCalls)
    /\ [][timerRuns' # timerRuns =>
            /\ navigatorText' = NavigatorTextOf(dateChosen)
            /\ \E j \in 1..GridSize : cells'[j].date = toShort(dateChosen, tz)]_vars
    /\ (timers > 0) ~> (timers = 0 /\ navigatorText = NavigatorTextOf(dateChosen))

\* two clicks have been re-rendered, and the month on show is that of the
\* date chosen last, which is not the month the widget was built in
C6_Witness ==
    /\ cbCalls = 2
    /\ timerRuns = 2
    /\ timers = 0
    /\ navigatorText = NavigatorTextOf(dateChosen)
    /\ navigatorText # NavigatorTextOf(dateToday)

\* C7: a click on the month / year label puts the displayed date in the
\* month of the wall clock and shows that month.
C7_LabelClickShowsCurrentMonth ==
    [][ClickNavigatorText =>
        /\ navigatorText' = NavigatorTextOf(now)
        /\ MonthOrd(dateDisplayed', tz) = MonthOrd(now, tz)]_vars

\* C8: a click on a day element sets dateChosen to the element's date and
\* schedules the re-render also when no callback is registered; only the call
\* of the callback is left out.
C8_ClickSelectsWithoutCallback ==
    [][\A i \in ClickCells :
        (ClickDay(i) /\ onDayClick = Null) =>
            /\ dateChosen' = ParseShort(cells[i].date)
            /\ timers' = timers + 1
            /\ cbCalls' = cbCalls]_vars

-----------------------------------------------------------------------------
(* Properties of the notes store                                           *)

NoEmptyText(store) == \A k \in DOMAIN store : store[k] # ""

\* C9: saveNotes removes the tagged key from the notes when the text is empty
\* and sets it to the text otherwise, removing an absent key changes nothing,
\* and neither the notes nor a remote document ever map a key to the empty
\* text.
C9_SaveSetsOrRemoves ==
    /\ [](/\ NoEmptyText(notes)
          /\ \A u \in Users : remote[u].exists => NoEmptyText(remote[u].data))
    /\ [][budget'.save # budget.save =>
            /\ DOMAIN notes' = IF textarea = "" THEN DOMAIN notes \ {dateTag}
                               ELSE DOMAIN notes \cup {dateTag}
            /\ \A k \in DOMAIN notes' :
                notes'[k] = IF k = dateTag THEN textarea ELSE notes[k]
            /\ (textarea = "" /\ dateTag \notin DOMAIN notes) => notes' = notes]_vars

\* the note of the tagged day was loaded and then saved with empty text: its
\* key is gone from the notes, the other loaded key is still there
C9_Witness ==
    /\ budget.save < MaxEvents
    /\ textarea = ""
    /\ dateTag \notin DOMAIN notes
    /\ SeedKey \in DOMAIN notes
    /\ \E u \in Users : remote[u] = Doc(SeedDocToday)

\* C10: when loadNotes has read a document that exists, the notes are the
\* notes of before overlaid by the document: the document's text for each of
\* its keys, the old text for every other old key, and no other key; and
\* every key of the notes is then in starredDates.
C10_LoadOverlaysRemote ==
    [][\A i \in 1..Len(ops) :
        (ReadDone(i) /\ ops[i].ok /\ ops[i].doc.exists) =>
            /\ DOMAIN notes' = DOMAIN notes \cup DOMAIN ops[i].doc.data
            /\ \A k \in DOMAIN notes' :
                notes'[k] = IF k \in DOMAIN ops[i].doc.data
                            THEN ops[i].doc.data[k] ELSE notes[k]
            /\ DOMAIN notes' \subseteq starredDates']_vars

\* a load of a document without the tagged day, after the tagged day was
\* saved locally: the notes hold the document's key and the local one, and
\* both are starred
C10_Witness ==
    /\ ops = <<>>
    /\ flashes = <<"green">>
    /\ \E u \in Users : remote[u] = Doc(SeedDoc)
    /\ notes = SeedDoc @@ (dateTag :> "a")
    /\ DOMAIN notes \subseteq starredDates

-----------------------------------------------------------------------------
(* Properties of saving and loading                                        *)

Has(seq, colour) == \E k \in 1..Len(seq) : seq[k] = colour

\* the step is the resumption of the load whose read is the i-th operation
LoadResumed(i) ==
    /\ ops[i].kind = "read"
    /\ ops[i].stage = "served"
    /\ ops' = RemoveAt(ops, i)

\* C11: the write of a save carries the whole store as it stands when it is
\* issued, for the identity signed in, and when it succeeds the remote
\* document of that identity is exactly what it carries; no other document
\* changes.
C11_WriteReplacesDocument ==
    /\ [][(budget'.save # budget.save /\ Len(ops') > Len(ops)) =>
            /\ ops'[Len(ops')].doc = [exists |-> TRUE, data |-> notes']
            /\ ops'[Len(ops')].uid = user]_vars
    /\ [][\A i \in 1..Len(ops) :
            WriteDone(i, TRUE) =>
                /\ remote'[ops[i].uid].exists
                /\ remote'[ops[i].uid].data = ops[i].doc.data
                /\ \A u \in Users \ {ops[i].uid} : remote'[u] = remote[u]]_vars

\* a load has read a document with the seed key and is still in flight, and
\* a write has since left the document without that key
C11_Witness ==
    \E j \in 1..Len(ops) :
        /\ ops[j].kind = "read"
        /\ ops[j].stage = "served"
        /\ ops[j].doc.exists
        /\ SeedKey \in DOMAIN ops[j].doc.data
        /\ remote[ops[j].uid].exists
        /\ SeedKey \notin DOMAIN remote[ops[j].uid].data

\* C12: when the write of a save has succeeded, starredDates is the key set
\* of the notes, the grid shows that set, and green is flashed.
C12_SaveRefreshesStarred ==
    [][\A i \in 1..Len(ops) :
        WriteDone(i, TRUE) =>
            /\ starredDates' = DOMAIN notes'
            /\ ClassifiedAsShown
            /\ flashes' = <<"green">>]_vars

\* C13: when the write of a save is rejected, or cannot be issued because
\* nobody is signed in, the notes keep the edit, red and no green is flashed,
\* and the error is caught within saveNotes.
C13_FailedSaveKeepsEdit ==
    /\ [][\A i \in 1..Len(ops) :
            WriteDone(i, FALSE) =>
                /\ notes' = notes
                /\ Has(flashes', "red") /\ ~Has(flashes', "green")
                /\ caught' # NoError]_vars
    /\ [][(budget'.save # budget.save /\ user = "none") =>
            /\ Lookup(notes', dateTag) = textarea
            /\ Has(flashes', "red") /\ ~Has(flashes', "green")
            /\ caught' # NoError]_vars

\* a write was rejected while the load of the sign-in was still in flight:
\* the text saved is in the notes and red is on show
C13_Witness ==
    /\ caught = Rejected
    /\ flashes = <<"red">>
    /\ Lookup(notes, dateTag) = "a"
    /\ Len(ops) = 1
    /\ ops[1].kind = "read"

\* C14: the resumption of a load leaves the notes as they are for every date
\* saved by a save that was issued after the load's read was taken and
\* has succeeded before the load resumes.
C14_LoadKeepsLaterSave ==
    [][\A i \in 1..Len(ops) :
        (LoadResumed(i) /\ ops[i].ok) =>
            \A k \in ops[i].overtaken : Lookup(notes', k) = Lookup(notes, k)]_vars

\* C15: the notes change only in a step of saveNotes, which sets or removes
\* the tagged date and nothing else, and in the resumption of a load, which
\* leaves every key of the document read in the notes with the document's
\* text: no step leaves only a part of a document in the notes.
C15_StoreChangesAreWhole ==
    [][notes' # notes =>
        \/ /\ budget'.save # budget.save
           /\ \A k \in (DOMAIN notes \cup DOMAIN notes') \ {dateTag} :
                Lookup(notes', k) = Lookup(notes, k)
           /\ Lookup(notes', dateTag) = textarea
        \/ \E i \in 1..Len(ops) :
            /\ LoadResumed(i)
            /\ ops[i].ok
            /\ ops[i].doc.exists
            /\ \A k \in DOMAIN ops[i].doc.data :
                k \in DOMAIN notes' /\ notes'[k] = ops[i].doc.data[k]]_vars

\* a load of the document of two keys has completed in a run without a save
C15_Witness ==
    /\ budget.save = MaxEvents
    /\ ops = <<>>
    /\ flashes = <<"green">>
    /\ notes = SeedDocToday

\* C16: loadNotes with nobody signed in is aborted by the error of authCheck,
\* sends no read and changes neither notes, textarea, starredDates nor grid.
C16_SignedOutLoadIsUnauthenticated ==
    [][budget'.load # budget.load =>
        /\ caught' = authCheck(user)
        /\ ops' = ops
        /\ UNCHANGED <<notes, textarea, starredDates, navigatorText, cells>>]_vars

\* C17: a load that finds no document flashes orange, which no other outcome
\* of a load does, and no red, and leaves the notes as they are.
C17_MissingDocumentFlashesOrange ==
    /\ [][\A i \in 1..Len(ops) :
            LoadResumed(i) =>
                IF ops[i].ok /\ ~ops[i].doc.exists
                THEN /\ Has(flashes', "orange")
                     /\ ~Has(flashes', "red")
                     /\ notes' = notes
                ELSE ~Has(flashes', "orange")]_vars
    /\ [][budget'.load # budget.load => ~Has(flashes', "orange")]_vars

\* a load has found no document
C17_Witness ==
    /\ Has(flashes, "orange")
    /\ user # "none"
    /\ ~remote[user].exists
    /\ ops = <<>>

\* C18: when the read of a load is rejected, notes, textarea and
\* starredDates are left as they are, red and neither green nor orange is
\* flashed, and the rejection is caught within loadNotes.
C18_RejectedLoadChangesNothing ==
    [][\A i \in 1..Len(ops) :
        (LoadResumed(i) /\ ~ops[i].ok) =>
            /\ UNCHANGED <<notes, textarea, starredDates>>
            /\ Has(flashes', "red")
            /\ ~Has(flashes', "green")
            /\ ~Has(flashes', "orange")
            /\ caught' = Rejected]_vars

\* the read of the only load of a run without a save was rejected
C18_Witness ==
    /\ caught = Rejected
    /\ flashes = <<"red">>
    /\ budget.save = MaxEvents
    /\ budget.auth = MaxEvents - 1
    /\ user # "none"
    /\ ops = <<>>

C20_DisabledIffSignedOut ==
    budget.auth < MaxEvents => (disabled <=> user = "none")

\* a sign-out after a sign-in, whose load is still in flight
C20_Witness ==
    /\ disabled
    /\ user = "none"
    /\ Len(ops) > 0

-----------------------------------------------------------------------------
(* Properties of the widget towards its host                               *)

IsShortKey(k) == DOMAIN k = 1..3 /\ k[2] \in 1..12 /\ k[3] \in 1..31

\* C21: a click in the navigator, a click on a day with the callback it
\* invokes, and the callback of a timer leave the notes as they are, keys
\* and texts; what the widget holds in starredDates and in the tags of its
\* day elements are short-keys.
C21_GridOperationsKeepNotes ==
    /\ [][(\/ budget'.nav # budget.nav
           \/ budget'.click # budget.click
           \/ timerRuns' # timerRuns) => notes' = notes]_vars
    /\ [](/\ \A k \in starredDates : IsShortKey(k)
          /\ \A i \in 1..GridSize : IsShortKey(cells[i].date))

\* a day was clicked and its timer has run while the notes held a text
C21_Witness ==
    /\ notes # EmptyStore
    /\ cbCalls > 0
    /\ timerRuns > 0

\* C22: onDayClick holds one callback or none, an assignment puts the new
\* callback in the place of the one before, and a click on a day invokes
\* the callback onDayClick holds at the click, once, with dateChosen and the
\* element clicked, and no callback that was replaced.
C22_OneCallbackAtATime ==
    /\ [](onDayClick \in {Null, "app"} \cup HostCallbacks)
    /\ [][budget'.set # budget.set => onDayClick' \in HostCallbacks]_vars
    /\ [][pc' # pc => onDayClick' = "app"]_vars
    /\ [][budget'.click # budget.click =>
            IF onDayClick = Null
            THEN UNCHANGED <<called, cbCalls, dateTag, textarea>>
            ELSE /\ cbCalls' = cbCalls + 1
                 /\ called'[1] = onDayClick
                 /\ called'[2] = dateChosen'
                 /\ ParseShort(cells[called'[3]].date) = dateChosen'
                 /\ onDayClick # "app" => UNCHANGED <<dateTag, textarea>>]_vars

\* the host's callback has replaced the page's and a click has invoked it:
\* the page's date tag has not followed the chosen date
C22_Witness ==
    /\ pc = "ready"
    /\ onDayClick = "other"
    /\ called # <<>>
    /\ called[1] = "other"
    /\ dateTag # toShort(dateChosen, tz)

-----------------------------------------------------------------------------
(* Properties of toShort, cloneDate and toOrdinal                          *)

\* the number that two, or four, digit characters spell
DigitOf(c) == CHOOSE n \in 0..9 : Digit(n) = c
Spelt2(str, i) == DigitOf(str[i]) * 10 + DigitOf(str[i + 1])
Spelt4(str, i) == Spelt2(str, i) * 100 + Spelt2(str, i + 2)

\* C23: in a fixed timezone two dates have the same key string exactly when
\* isSameDate holds of them, which is exactly when they fall on the same
\* local calendar day; and the key spells the local year, month and day of
\* the date as YYYY-MM-DD.
C23_ShortKeyIsInjective ==
    (fnOut # <<>> /\ fnIn.fn = "toShort") =>
        /\ (fnOut[1] = fnOut[2]) <=> fnOut[3]
        /\ fnOut[3] <=> (LocalDay(fnIn.d1, tz) = LocalDay(fnIn.d2, tz))
        /\ Len(fnOut[1]) = 10
        /\ fnOut[1][5] = "-" /\ fnOut[1][8] = "-"
        /\ Spelt4(fnOut[1], 1) = getFullYear(fnIn.d1, tz)
        /\ Spelt2(fnOut[1], 6) = getMonth(fnIn.d1, tz) + 1
        /\ Spelt2(fnOut[1], 9) = getDate(fnIn.d1, tz)

\* two different instants of New Year's Day 2025 have got the same key, and
\* are the same date
C23_Witness ==
    /\ fnOut # <<>>
    /\ fnIn.fn = "toShort"
    /\ fnIn.d1 # fnIn.d2
    /\ fnOut[3]
    /\ fnOut[1] = <<"2", "0", "2", "5", "-", "0", "1", "-", "0", "1">>
    /\ fnOut[2] = fnOut[1]

\* the fields cloneDate is asked for: the options given, and the fields of
\* the source for the others
Wanted(l, opts) ==
    [y |-> IF "year" \in DOMAIN opts THEN opts.year ELSE l.y,
     m |-> IF "month" \in DOMAIN opts THEN opts.month ELSE l.m,
     d |-> IF "day" \in DOMAIN opts THEN opts.day ELSE l.d]
IsCalendarDate(w) == w.m \in 0..11 /\ w.d \in 1..DaysInMonth(w.y, w.m)

\* C28: whenever the options given to cloneDate, with the fields of the
\* source for those not given, name a calendar date, the date returned has
\* that year, month and day; and a day option of 32 on a day of January
\* gives 1 February.
C28_CloneDateTakesOverrides ==
    (fnOut # <<>> /\ fnIn.fn = "cloneDate") =>
        /\ IsCalendarDate(Wanted(Local(fnIn.date, tz), fnIn.opts)) =>
                SameFields(Local(fnOut[1], tz), Wanted(Local(fnIn.date, tz), fnIn.opts))
        /\ (fnIn.opts = [day |-> 32] /\ getMonth(fnIn.date, tz) = 0) =>
                (getMonth(fnOut[1], tz) = 1 /\ getDate(fnOut[1], tz) = 1)

\* C29: toOrdinal gives the day number of the date, followed by st for 1, 21
\* and 31, nd for 2 and 22, rd for 3 and 23, and th for every other day.
C29_OrdinalSuffix ==
    (fnOut # <<>> /\ fnIn.fn = "toOrdinal") =>
        /\ fnOut[1] = getDate(fnIn.date, tz)
        /\ fnOut[2] = (IF fnOut[1] \in {1, 21, 31} THEN "st"
                       ELSE IF fnOut[1] \in {2, 22} THEN "nd"
                       ELSE IF fnOut[1] \in {3, 23} THEN "rd"
                       ELSE "th")

\* the ordinal of an 11th
C29_Witness ==
    /\ fnOut = <<11, "th">>
    /\ fnIn.fn = "toOrdinal"

-----------------------------------------------------------------------------
(* Properties of updateDate                                                *)

\* the date the render of the step was given: dateDisplayed after a
\* navigation and dateToday at a click on the label, dateChosen in the
\* callback of a timer, a new Date() when a load resumes
ReferenceDate ==
    IF budget'.nav # budget.nav
    THEN (IF dateDisplayed' # dateDisplayed THEN dateDisplayed' ELSE dateToday)
    ELSE IF timerRuns' # timerRuns THEN dateChosen
    ELSE now

\* C24: after every render, a render with the same reference date, with
\* dateChosen, starredDates and the clock as they are, gives the label and
\* the day elements (numbers, tags and classes) that are there already.
C24_RenderIsIdempotent ==
    [][RenderStep =>
        updateDate(ReferenceDate, cells', dateChosen', starredDates', now', tz) =
            [navigatorText |-> navigatorText', cells |-> cells']]_vars

\* a timer's render has marked the chosen day on a grid rendered before
C24_Witness ==
    /\ timerRuns > 0
    /\ \E i \in 1..GridSize : "marked" \in cells[i].classList

TagsOf(dateObjects) == [i \in 1..GridSize |-> toShort(dateObjects[i], tz)]

\* C26: after every render the label is the month and year of the reference
\* date and the i-th day element is tagged with the short-key of the i-th
\* date of getDateArray of the reference date; at all times every day element
\* shows the day number of its tag, and the tags are 42 consecutive days.
C26_CellsShowMonthGrid ==
    /\ [][RenderStep =>
            /\ navigatorText' = NavigatorTextOf(ReferenceDate)
            /\ [i \in 1..GridSize |-> cells'[i].date] =
                    TagsOf(getDateArray(ReferenceDate, tz))]_vars
    /\ [](/\ \A i \in 1..GridSize : cells[i].textContent = cells[i].date[3]
          /\ \A i \in 1..(GridSize - 1) : cells[i + 1].date = NextDay(cells[i].date)
          /\ Cardinality({cells[i].date : i \in 1..GridSize}) = GridSize)

\* December 2024 on show: from 25 November 2024 to 5 January 2025
C26_Witness ==
    /\ navigatorText = <<11, 2024>>
    /\ cells[1].date = <<2024, 11, 25>>
    /\ cells[GridSize].date = <<2025, 1, 5>>
    /\ cells[GridSize].textContent = 5

-----------------------------------------------------------------------------
(* Properties of a save that failed                                        *)

Writes(queue) == Cardinality({j \in 1..Len(queue) : queue[j].kind = "write"})

\* C25: when the write of a save is rejected, no write takes its place and
\* no timer is set; a write is only ever issued by a step of saveNotes, and
\* it carries the notes as they are then.
C25_NoRetryAfterFailedSave ==
    /\ [][\A i \in 1..Len(ops) :
            WriteDone(i, FALSE) =>
                /\ Writes(ops') = Writes(ops) - 1
                /\ ops' = RemoveAt(ops, i)
                /\ timers' = timers]_vars
    /\ [][Writes(ops') > Writes(ops) =>
            /\ budget'.save # budget.save
            /\ ops'[Len(ops')].kind = "write"
            /\ ops'[Len(ops')].doc = [exists |-> TRUE, data |-> notes']]_vars

\* the write of a save was rejected, saveNotes was run once more and its
\* write, with the notes as they are, is in flight
C25_Witness ==
    /\ caught = Rejected
    /\ budget.save = MaxEvents - 2
    /\ Len(ops) = 1
    /\ ops[1].kind = "write"
    /\ notes # EmptyStore
    /\ ops[1].doc = [exists |-> TRUE, data |-> notes]

-----------------------------------------------------------------------------
(* Properties of what is on show                                           *)

\* C27: when a load resumes with a document it has found, the textarea's
\* value becomes the text the notes hold for the date tag of the page, or
\* the empty text when they hold none.
C27_LoadShowsTextOfOpenDate ==
    [][\A i \in 1..Len(ops) :
        (LoadResumed(i) /\ ops[i].ok /\ ops[i].doc.exists) =>
            textarea' = (IF dateTag \in DOMAIN notes' THEN notes'[dateTag] ELSE "")]_vars

\* the load of the sign-in has put the remote text of today in the textarea
C27_Witness ==
    /\ user # "none"
    /\ ops = <<>>
    /\ caught = NoError
    /\ dateTag \in DOMAIN notes
    /\ notes[dateTag] = "c"
    /\ textarea = "c"

\* C30: the month and year on the label, which are those of the grid, are
\* at all times the month and year of dateDisplayed.
C30_ShownMonthIsDisplayedMonth ==
    navigatorText = NavigatorTextOf(dateDisplayed)

-----------------------------------------------------------------------------
(* Properties of loads, selections and notifications                       *)

\* C31: when a load resumes while the textarea holds a text that is not the
\* one the notes hold for the date tag, that is a text typed and not saved,
\* the textarea's value is left as it is.
C31_LoadKeepsUnsavedText ==
    [][\A i \in 1..Len(ops) :
        (LoadResumed(i) /\ textarea # Lookup(notes, dateTag)) =>
            textarea' = textarea]_vars

\* C34: the resumption of a load, whatever it has read, leaves the month on
\* show, dateChosen and the date tag of the page as they are.
C34_LoadKeepsVisibleMonth ==
    [][\A i \in 1..Len(ops) :
        LoadResumed(i) =>
            /\ navigatorText' = navigatorText
            /\ dateChosen' = dateChosen
            /\ dateTag' = dateTag]_vars

\* C35: user changes only in an auth notification; a notification of an
\* identity leaves that identity in user, the textarea enabled and a read of
\* that identity's document in flight, with no error caught and nothing
\* flashed; a notification of nobody leaves user empty, the textarea
\* disabled and no new operation; and saveNotes issues a write only for the
\* identity in user, none when user is empty.
C35_UserFollowsNotification ==
    /\ [][user' # user => budget'.auth # budget.auth]_vars
    /\ [][budget'.auth # budget.auth =>
            IF user' # "none"
            THEN /\ Len(ops') = Len(ops) + 1
                 /\ ops'[Len(ops')].kind = "read"
                 /\ ops'[Len(ops')].uid = user'
                 /\ UNCHANGED <<caught, flashes>>
                 /\ ~disabled'
            ELSE /\ ops' = ops
                 /\ disabled']_vars
    /\ [][budget'.save # budget.save =>
            IF user = "none"
            THEN ops' = ops
            ELSE /\ Len(ops') = Len(ops) + 1
                 /\ ops'[Len(ops')].kind = "write"
                 /\ ops'[Len(ops')].uid = user]_vars

\* the first notification of the run was a sign-in: its read is in flight
C35_Witness ==
    /\ user # "none"
    /\ budget.auth = MaxEvents - 1
    /\ budget.total = MaxEvents - 1
    /\ Len(ops) = 1
    /\ ops[1].kind = "read"
    /\ ops[1].uid = user
    /\ ops[1].stage = "sent"
    /\ caught = NoError
    /\ flashes = <<>>

\* C36: a click on a day that invokes the application's callback leaves the
\* date tag of the page at the short-key of the date the callback was given,
\* and the textarea at the text the notes hold for that key, empty when they
\* hold none.
C36_SelectionShowsTextOfDay ==
    [][(budget'.click # budget.click /\ onDayClick = "app") =>
        /\ dateTag' = toShort(called'[2], tz)
        /\ textarea' = (IF dateTag' \in DOMAIN notes' THEN notes'[dateTag'] ELSE "")]_vars

\* a day without a note was selected while today's note was on show: the
\* textarea is empty
C36_Witness ==
    /\ called # <<>>
    /\ dateTag = toShort(called[2], tz)
    /\ dateTag # toShort(now, tz)
    /\ dateTag \notin DOMAIN notes
    /\ Lookup(notes, toShort(now, tz)) = "c"
    /\ textarea = ""

\* C33: under one identity, whenever no save and no load is in flight and the
\* write of the save issued last has succeeded, the user's remote document
\* exists and holds exactly the notes of the local store.
C33_QuietStoreEqualsRemote ==
    (ops = <<>> /\ lastSave[2] = "ok" /\ user # "none") => remote[user] = Doc(notes)

\* C32: the notes of one identity never reach the document of another.  B has
\* no document at the start and the open date stays the same, so B's document
\* can only ever hold that date: the one key saved while B was signed in.
C32_NotesStayWithTheirIdentity ==
    remote["B"].exists => DOMAIN remote["B"].data \subseteq {dateTag}

\* C37: login() with a user recorded returns that user, and logout() with no
\* user recorded returns at once: no sign-in or sign-out is started, nobody is
\* notified, nothing is read, and the recorded user is what it was.
C37_NothingToSignInOrOut ==
    [][(/\ budget'.sign # budget.sign
        /\ \/ fnOut'[1] = "login" /\ user # "none"
           \/ fnOut'[1] = "logout" /\ user = "none")
       => /\ fnOut'[2] = (IF fnOut'[1] = "login" THEN user ELSE "undefined")
          /\ signing' = signing
          /\ budget'.auth = budget.auth
          /\ user' = user
          /\ ops' = ops
          /\ disabled' = disabled]_vars

\* a login() has returned the user whom an earlier sign-in had recorded
C37_Witness ==
    /\ fnOut = <<"login", "A">>
    /\ user = "A"
    /\ signing = <<>>
    /\ budget.sign = MaxEvents - 2
    /\ budget.auth = MaxEvents - 1

=============================================================================
